---- MODULE Spec2Model ----
(***************************************************************************)
(* Room EQ visual pipeline editor (public/src/room.js).                    *)
(*                                                                         *)
(* The module state of room.js (DSP, lanes), the DOM subtree under the     *)
(* #editor element, the async calls of roomOnLoad / refreshPipeline that   *)
(* are suspended at an await, and the queue of requestAnimationFrame       *)
(* callbacks are modelled as a state machine.  The pure builders           *)
(* (formatNodeContent, createNode, createLane, drawWires, createWire) are  *)
(* operators.                                                              *)
(***************************************************************************)
EXTENDS Integers, Sequences, FiniteSets, TLC

VARIABLES
    DSP,            \* module variable DSP: "undefined" | "object"
    editorPresent,  \* whether document.getElementById('editor') finds an element
    editor,         \* children of the #editor element, in document order
    lanes,          \* module variable lanes: sequence of lane elements
    dom,            \* every lane element created so far, by element id
    calls,          \* the async calls started so far, with their position
    rafQueue,       \* pending requestAnimationFrame callbacks (lane element ids)
    last,           \* the step that ran most recently
    component,      \* formatter harness: the stage descriptor under test
    content         \* formatter harness: what formatNodeContent produced for it

vars == <<DSP, editorPresent, editor, lanes, dom, calls,
          rafQueue, last, component, content>>

-----------------------------------------------------------------------------
(* Bounds of the model *)

\* number of calls of roomOnLoad / refreshPipeline in one behaviour
MaxCalls == 3

\* number of stages of the longest channel of the sample configurations
MaxStages == 3

-----------------------------------------------------------------------------
(* Constants of room.js *)

nodeWidth == 120
nodeHeight == 80
nodeSpacing == 20
laneHeight == 120

\* let xPos = 10 in createLane
firstNodeX == 10

-----------------------------------------------------------------------------
(* JavaScript values *)

\* a number-valued property that may be absent
Undefined == [def |-> FALSE, v |-> 0]
Num(n) == [def |-> TRUE, v |-> n]

\* `${x}` in a template literal
Str(x) == IF x.def THEN ToString(x.v) ELSE "undefined"

\* if (x): undefined and 0 are falsy
Truthy(x) == x.def /\ x.v # 0

\* String.prototype.toUpperCase on the type names that occur
ToUpperCase(s) ==
    CASE s = "input" -> "INPUT"
      [] s = "output" -> "OUTPUT"
      [] s = "mixer" -> "MIXER"
      [] s = "filter" -> "FILTER"
      [] s = "delay" -> "DELAY"
      [] OTHER -> s

\* Math.sqrt on the squares that occur, rounded down
Sqrt(n) == CHOOSE r \in 0..n : r * r <= n /\ n < (r + 1) * (r + 1)

RECURSIVE IndexOfFirst(_, _, _)
\* Array.prototype.find(k => k !== skip) as an index; 0 when nothing is found
IndexOfFirst(keys, skip, i) ==
    IF i > Len(keys) THEN 0
    ELSE IF keys[i] # skip THEN i
    ELSE IndexOfFirst(keys, skip, i + 1)

-----------------------------------------------------------------------------
(* Stage descriptors, as linearizeConfig hands them over.                  *)
(*   keys     Object.keys(component), in insertion order                   *)
(*   hasType / type          component.type                                *)
(*   device                  component.device (def = FALSE: absent)        *)
(*   sources                 component.sources (def = FALSE: absent)       *)
(*   filter                  the value under the first non-type key        *)

NoDevice == [def |-> FALSE, device |-> "", format |-> ""]
NoSources == [def |-> FALSE, length |-> 0]
NoParameters == [type |-> "", freq |-> Undefined, gain |-> Undefined]
NoFilter == [type |-> "", hasParameters |-> FALSE, parameters |-> NoParameters]

InputStage(dev, fmt) ==
    [keys |-> <<"type", "device">>, hasType |-> TRUE, type |-> "input",
     device |-> [def |-> TRUE, device |-> dev, format |-> fmt],
     sources |-> NoSources, filter |-> NoFilter]

OutputStage(dev, fmt) ==
    [keys |-> <<"type", "device">>, hasType |-> TRUE, type |-> "output",
     device |-> [def |-> TRUE, device |-> dev, format |-> fmt],
     sources |-> NoSources, filter |-> NoFilter]

MixerStage(n) ==
    [keys |-> <<"type", "sources">>, hasType |-> TRUE, type |-> "mixer",
     device |-> NoDevice, sources |-> [def |-> TRUE, length |-> n],
     filter |-> NoFilter]

FilterStage(name, ftype, hasParams, params) ==
    [keys |-> <<"type", name>>, hasType |-> TRUE, type |-> "filter",
     device |-> NoDevice, sources |-> NoSources,
     filter |-> [type |-> ftype, hasParameters |-> hasParams,
                 parameters |-> params]]

BiquadStage(name, ptype, freq, gain) ==
    FilterStage(name, "Biquad", TRUE,
                [type |-> ptype, freq |-> freq, gain |-> gain])

GainStage(name, gain) ==
    FilterStage(name, "Gain", TRUE,
                [type |-> "", freq |-> Undefined, gain |-> gain])

\* {type: 'filter'}: no key besides type
FilterNoKeyStage ==
    [keys |-> <<"type">>, hasType |-> TRUE, type |-> "filter",
     device |-> NoDevice, sources |-> NoSources, filter |-> NoFilter]

\* {type: 'delay', ...}: a type the formatter does not know
UnrecognizedStage ==
    [keys |-> <<"type">>, hasType |-> TRUE, type |-> "delay",
     device |-> NoDevice, sources |-> NoSources, filter |-> NoFilter]

\* {}: no type at all
MissingTypeStage ==
    [keys |-> <<>>, hasType |-> FALSE, type |-> "",
     device |-> NoDevice, sources |-> NoSources, filter |-> NoFilter]

-----------------------------------------------------------------------------
(* formatNodeContent: the node's detail lines, or a TypeError.             *)
(* One record per <div class="nodeDetail [small]"> of the returned HTML.   *)

Detail(text) == [text |-> text, small |-> FALSE]
Small(text) == [text |-> text, small |-> TRUE]
Returned(lines) == [threw |-> FALSE, lines |-> lines]
Threw == [threw |-> TRUE, lines |-> <<>>]

\* the Biquad branch
formatBiquad(filterName, params) ==
    <<Detail(filterName), Small(params.type)>>
    \o (IF Truthy(params.freq)
          THEN <<Small(Str(params.freq) \o " Hz")>> ELSE <<>>)
    \o (IF params.gain.def
          THEN <<Small(Str(params.gain) \o " dB")>> ELSE <<>>)

\* the 'filter' case
formatFilter(c) ==
    LET k == IndexOfFirst(c.keys, "type", 1) IN
    IF k = 0 THEN Returned(<<Detail("Unknown")>>)
    ELSE
        LET filterName == c.keys[k]
            filter == c.filter
        IN  IF filter.type = "Biquad" THEN
                \* params.type on undefined params
                IF ~filter.hasParameters THEN Threw
                ELSE Returned(formatBiquad(filterName, filter.parameters))
            ELSE IF filter.type = "Gain" THEN
                IF ~filter.hasParameters THEN Threw
                ELSE Returned(<<Detail(filterName),
                     Small("Gain: " \o Str(filter.parameters.gain) \o " dB")>>)
            ELSE IF filter.type = "Conv" THEN
                Returned(<<Detail(filterName), Small("Convolution")>>)
            ELSE Returned(<<Detail(filterName), Small(filter.type)>>)

formatNodeContent(c) ==
    IF c.hasType /\ c.type \in {"input", "output"} THEN
        \* component.device.device on an absent device
        IF ~c.device.def THEN Threw
        ELSE Returned(<<Detail(c.device.device), Small(c.device.format)>>)
    ELSE IF c.hasType /\ c.type = "mixer" THEN
        \* component.sources.length on absent sources
        IF ~c.sources.def THEN Threw
        ELSE Returned(<<Detail(ToString(c.sources.length) \o " source"
                        \o (IF c.sources.length # 1 THEN "s" ELSE ""))>>)
    ELSE IF c.hasType /\ c.type = "filter" THEN formatFilter(c)
    ELSE Returned(<<Detail("Unknown")>>)

-----------------------------------------------------------------------------
(* createNode: the node element, or a TypeError *)

NoNode == [threw |-> TRUE]

createNode(c, channelNo, xPos) ==
    \* component.type.toUpperCase() on a missing type
    IF ~c.hasType THEN NoNode
    ELSE LET body == formatNodeContent(c) IN
         IF body.threw THEN NoNode
         ELSE [threw |-> FALSE,
               dataType |-> c.type,
               dataChannel |-> channelNo,
               left |-> xPos,
               width |-> nodeWidth,
               height |-> nodeHeight,
               header |-> ToUpperCase(c.type),
               content |-> body.lines,
               connectorLeft |-> (c.type # "input"),
               connectorRight |-> (c.type # "output")]

-----------------------------------------------------------------------------
(* createLane: the lane element (label, node container), or a TypeError    *)

xAdvanceWidthOnly == nodeWidth

\* xPos += nodeWidth + nodeSpacing
xAdvance == nodeWidth + nodeSpacing

RECURSIVE createNodes(_, _, _, _, _)
\* the loop over components, from index i with the running xPos
createNodes(components, channelNo, i, xPos, nodes) ==
    IF i > Len(components) THEN [threw |-> FALSE, nodes |-> nodes]
    ELSE LET node == createNode(components[i], channelNo, xPos) IN
         IF node.threw THEN [threw |-> TRUE, nodes |-> <<>>]
         ELSE createNodes(components, channelNo, i + 1, xPos + xAdvance,
                          Append(nodes, node))

\* el: the identity of the new lane element; channelNo is 0-based
createLane(el, channelNo, components) ==
    LET built == createNodes(components, channelNo, 1, firstNodeX, <<>>) IN
    IF built.threw THEN [threw |-> TRUE]
    ELSE [threw |-> FALSE,
          el |-> el,
          dataChannel |-> channelNo,
          height |-> laneHeight,
          label |-> "Channel " \o ToString(channelNo),
          nodes |-> built.nodes,
          wires |-> <<>>,
          wired |-> "pending"]

-----------------------------------------------------------------------------
(* drawWires / createWire *)

\* getBoundingClientRect relative to the node container: a laid-out node sits
\* at its style.left with its style size; a detached element measures zero
Rect(node, attached) ==
    IF attached
      THEN [left |-> node.left, right |-> node.left + node.width,
            top |-> 0, height |-> node.height]
      ELSE [left |-> 0, right |-> 0, top |-> 0, height |-> 0]

\* from, to: the node elements joined (lane element, index in the lane)
createWire(el, i, j, nodes, attached) ==
    LET fromRect == Rect(nodes[i], attached)
        toRect == Rect(nodes[j], attached)
        fromX == fromRect.right
        fromY == fromRect.top + fromRect.height \div 2
        toX == toRect.left
        toY == toRect.top + toRect.height \div 2
        deltaX == toX - fromX
        deltaY == toY - fromY
    IN  [className |-> "wire", from |-> <<el, i>>, to |-> <<el, j>>,
         left |-> fromX, top |-> fromY,
         width |-> Sqrt(deltaX * deltaX + deltaY * deltaY),
         measured |-> attached]

wirePairsAll(n) == {<<i, j>> \in (1..n) \X (1..n) : i < j}

\* for (i = 0; i < nodes.length - 1; i++): the pairs (nodes[i], nodes[i + 1])
wirePairs(n) == {<<i, i + 1>> : i \in 1..(n - 1)}

\* the pairs in loop order
Ordered(pairs) ==
    [k \in 1..Cardinality(pairs) |->
        CHOOSE p \in pairs :
            Cardinality({q \in pairs :
                q[1] < p[1] \/ (q[1] = p[1] /\ q[2] < p[2])}) = k - 1]

\* container.querySelectorAll('.wire').forEach(wire => wire.remove())
removeWires(wires) == SelectSeq(wires, LAMBDA w : w.className # "wire")

\* the wire children of the lane's node container after drawWires
drawWires(lane, attached) ==
    LET ordered == Ordered(wirePairs(Len(lane.nodes))) IN
    removeWires(lane.wires)
    \o [k \in 1..Len(ordered) |->
          createWire(lane.el, ordered[k][1], ordered[k][2], lane.nodes, attached)]

-----------------------------------------------------------------------------
(* Sample configurations: what linearizeConfig may return from the         *)
(* configuration the shared DSP object holds at that moment, one stage     *)
(* list per channel.                                                       *)

\* input, MaxStages - 2 Biquad filters, output
longChannel ==
    [i \in 1..MaxStages |->
        IF i = 1 THEN InputStage("hw:0", "S32LE")
        ELSE IF i = MaxStages THEN OutputStage("hw:1", "S32LE")
        ELSE BiquadStage("Low Shelf", "Lowshelf", Num(100), Num(i))]

degradedChannel == <<UnrecognizedStage>>

malformedChannel == <<MixerStage(1), MissingTypeStage, OutputStage("hw:1", "S32LE")>>

gainChannel == <<FilterNoKeyStage, GainStage("Volume", Num(0))>>

Configs ==
    { <<>>,
      <<gainChannel>>,
      <<longChannel, degradedChannel>>,
      <<<<>>, malformedChannel>> }

-----------------------------------------------------------------------------
(* DOM helpers *)

LaneChild(el) == [kind |-> "lane", el |-> el, message |-> ""]
ErrorPanel(message) == [kind |-> "error", el |-> <<0, 0>>, message |-> message]

\* whether the lane element el is a child of #editor
Attached(el) == \E k \in 1..Len(editor) : editor[k] = LaneChild(el)

\* the lane elements the program can still reach: children of #editor,
\* entries of the lanes list, and the lanes pending callbacks close over
Reachable(children, list, queue) ==
    {children[k].el : k \in {k \in 1..Len(children) : children[k].kind = "lane"}}
    \cup {list[k] : k \in 1..Len(list)}
    \cup {queue[k] : k \in 1..Len(queue)}

\* the element store without the elements that became unreachable
Collect(d, children, list, queue) ==
    [el \in DOMAIN d \cap Reachable(children, list, queue) |-> d[el]]

\* showError: the children of #editor after it, given those before
showError(children, message) ==
    IF editorPresent THEN <<ErrorPanel(message)>> ELSE children

NotConnectedMessage ==
    "Not connected to DSP. Please connect from the Connections page."

LoadErrorMessage(message) == "Error loading DSP configuration: " \o message

-----------------------------------------------------------------------------
(* Calls of the two exported async functions *)

InFlight(p) == calls[p].pc \in {"downloadConfig", "linearizeConfig"}

\* peers: the calls that were suspended while this one was running;
\* n: the number of channels linearizeConfig returned to it (-1: none yet)
NewCall(kind, pc, outcome) ==
    [kind |-> kind, pc |-> pc, outcome |-> outcome,
     peers |-> {q \in 1..Len(calls) : InFlight(q)},
     n |-> -1]

\* a call starts: it and every call still suspended now overlap
Started(call) ==
    Append([q \in 1..Len(calls) |->
               IF InFlight(q)
                 THEN [calls[q] EXCEPT !.peers = @ \cup {Len(calls) + 1}]
                 ELSE calls[q]],
           call)

Overlapped(p) == calls[p].peers # {}

\* no call is suspended at an await
Idle == \A q \in 1..Len(calls) : ~InFlight(q)

Step(ev, p) == [ev |-> ev, call |-> p, channels |-> <<>>, unplaced |-> {}]

harnessIdle == [state |-> "idle", threw |-> FALSE, lines |-> <<>>]

Init ==
    /\ DSP = "undefined"
    /\ editorPresent \in BOOLEAN
    /\ editor = <<>>
    /\ lanes = <<>>
    /\ dom = <<>>
    /\ calls = <<>>
    /\ rafQueue = <<>>
    /\ last = Step("load", 0)
    /\ component = UnrecognizedStage
    /\ content = harnessIdle

\* what roomOnLoad may find in window.parent.DSP: nothing, an object with
\* connected false, an object with connected true
ParentDSP == {"missing", "disconnected", "connected"}

\* roomOnLoad up to its first await; parentDSP is window.parent.DSP
RoomOnLoad(parentDSP) ==
    /\ Len(calls) < MaxCalls
    /\ DSP' = IF parentDSP = "missing" THEN "undefined" ELSE "object"
    /\ IF parentDSP # "connected"
         THEN /\ editor' = showError(editor, NotConnectedMessage)
              /\ calls' = Started(NewCall("roomOnLoad", "returned", "notConnected"))
              /\ last' = Step("notConnected", Len(calls) + 1)
         ELSE /\ editor' = editor
              /\ calls' = Started(NewCall("roomOnLoad", "downloadConfig", "pending"))
              /\ last' = Step("called", Len(calls) + 1)
    /\ dom' = Collect(dom, editor', lanes, rafQueue)
    /\ UNCHANGED <<editorPresent, lanes, rafQueue, component, content>>

\* refreshPipeline up to its first await
RefreshPipeline ==
    /\ Len(calls) < MaxCalls
    /\ IF DSP = "undefined"
         THEN \* DSP.downloadConfig() on undefined
              /\ calls' = Started(NewCall("refreshPipeline", "rejected", "noDSP"))
              /\ last' = Step("noDSP", Len(calls) + 1)
         ELSE /\ calls' = Started(NewCall("refreshPipeline", "downloadConfig", "pending"))
              /\ last' = Step("called", Len(calls) + 1)
    /\ UNCHANGED <<DSP, editorPresent, editor, lanes, dom,
                   rafQueue, component, content>>

\* how a call ends when an exception reaches it
Failed(p, outcome) ==
    [calls EXCEPT ![p].outcome = outcome,
                  ![p].pc = IF calls[p].kind = "roomOnLoad"
                              THEN "returned" ELSE "rejected"]

\* the children of #editor after an exception: the catch of roomOnLoad shows
\* the error, refreshPipeline has no catch
AfterError(p, children, message) ==
    IF calls[p].kind = "roomOnLoad"
      THEN showError(children, LoadErrorMessage(message))
      ELSE children

clearLanesKept == lanes

\* lanes = [] in renderPipeline
clearLanes == <<>>

\* await DSP.downloadConfig() resolves, then renderPipeline runs up to its await
DownloadResolved(p) ==
    /\ p \in 1..Len(calls)
    /\ calls[p].pc = "downloadConfig"
    /\ IF ~editorPresent
         THEN \* renderPipeline returns early
              /\ calls' = [calls EXCEPT ![p].pc = "returned",
                                        ![p].outcome = "noEditor"]
              /\ last' = Step("noEditor", p)
              /\ UNCHANGED <<editor, lanes>>
         ELSE /\ lanes' = clearLanes
              /\ IF DSP = "undefined"
                   THEN \* DSP.linearizeConfig() on undefined: a later
                        \* roomOnLoad found no DSP object
                        /\ editor' = AfterError(p, <<>>, "TypeError")
                        /\ calls' = Failed(p, "noDSP")
                        /\ last' = Step("noDSP", p)
                   ELSE /\ editor' = <<>>
                        /\ calls' = [calls EXCEPT ![p].pc = "linearizeConfig"]
                        /\ last' = Step("cleared", p)
    /\ dom' = Collect(dom, editor', lanes', rafQueue)
    /\ UNCHANGED <<DSP, editorPresent, rafQueue, component, content>>

\* await DSP.downloadConfig() rejects
DownloadRejected(p) ==
    /\ p \in 1..Len(calls)
    /\ calls[p].pc = "downloadConfig"
    /\ calls' = Failed(p, "downloadFailed")
    /\ editor' = AfterError(p, editor, "download failed")
    /\ last' = Step("downloadFailed", p)
    /\ dom' = Collect(dom, editor', lanes, rafQueue)
    /\ UNCHANGED <<DSP, editorPresent, lanes, rafQueue,
                   component, content>>

RECURSIVE buildLanes(_, _, _, _)
\* the loop of renderPipeline from channelNo on; s holds the children of
\* #editor, the lanes list, the elements created and the callbacks queued
buildLanes(p, channels, channelNo, s) ==
    IF channelNo >= Len(channels) THEN s
    ELSE LET el == <<p, channelNo>>
             lane == createLane(el, channelNo, channels[channelNo + 1])
         IN  IF lane.threw THEN [s EXCEPT !.threw = TRUE]
             ELSE buildLanes(p, channels, channelNo + 1,
                    [threw |-> FALSE,
                     editor |-> Append(s.editor, LaneChild(el)),
                     lanes |-> Append(s.lanes, el),
                     dom |-> s.dom @@ (el :> lane),
                     raf |-> Append(s.raf, el)])

\* await DSP.linearizeConfig() resolves with channels, then the loop runs to
\* its end or to the first exception
LinearizeResolved(p, channels) ==
    /\ p \in 1..Len(calls)
    /\ calls[p].pc = "linearizeConfig"
    /\ LET built == buildLanes(p, channels, 0,
                       [threw |-> FALSE, editor |-> editor, lanes |-> lanes,
                        dom |-> dom, raf |-> rafQueue])
       IN  /\ lanes' = built.lanes
           /\ rafQueue' = built.raf
           /\ IF built.threw
                THEN /\ editor' = AfterError(p, built.editor, "TypeError")
                     /\ calls' = [Failed(p, "buildFailed") EXCEPT
                                     ![p].n = Len(channels)]
                     /\ last' = [Step("buildFailed", p) EXCEPT
                                     !.channels = channels]
                ELSE /\ editor' = built.editor
                     /\ calls' = [calls EXCEPT ![p].pc = "returned",
                                               ![p].outcome = "rendered",
                                               ![p].n = Len(channels)]
                     /\ last' = [Step("rendered", p) EXCEPT
                                     !.channels = channels]
           /\ dom' = Collect(built.dom, editor', built.lanes, built.raf)
    /\ UNCHANGED <<DSP, editorPresent, component, content>>

\* await DSP.linearizeConfig() rejects
LinearizeRejected(p) ==
    /\ p \in 1..Len(calls)
    /\ calls[p].pc = "linearizeConfig"
    /\ calls' = Failed(p, "linearizeFailed")
    /\ editor' = AfterError(p, editor, "linearize failed")
    /\ last' = Step("linearizeFailed", p)
    /\ dom' = Collect(dom, editor', lanes, rafQueue)
    /\ UNCHANGED <<DSP, editorPresent, lanes, rafQueue,
                   component, content>>

\* the browser runs the pending requestAnimationFrame callbacks of this frame,
\* oldest first; each is drawWires on the node container and nodes of its lane
AnimationFrame ==
    /\ rafQueue # <<>>
    /\ LET due == {rafQueue[k] : k \in 1..Len(rafQueue)}
           drawn == [el \in DOMAIN dom |->
                       IF el \in due
                         THEN [dom[el] EXCEPT
                                 !.wires = drawWires(dom[el], Attached(el)),
                                 !.wired = IF Attached(el) THEN "placed"
                                           ELSE "unplaced"]
                         ELSE dom[el]]
       IN  /\ dom' = Collect(drawn, editor, lanes, <<>>)
           /\ last' = [Step("frame", 0) EXCEPT
                          !.unplaced = {el \in due : ~Attached(el)}]
    /\ rafQueue' = <<>>
    /\ UNCHANGED <<DSP, editorPresent, editor, lanes, calls,
                   component, content>>

Next ==
    \/ \E parentDSP \in ParentDSP : RoomOnLoad(parentDSP)
    \/ RefreshPipeline
    \/ \E p \in 1..MaxCalls : DownloadResolved(p)
    \/ \E p \in 1..MaxCalls : DownloadRejected(p)
    \/ \E p \in 1..MaxCalls, channels \in Configs : LinearizeResolved(p, channels)
    \/ \E p \in 1..MaxCalls : LinearizeRejected(p)
    \/ AnimationFrame

Spec == Init /\ [][Next]_vars

\* the host starts a call only when the previous one has settled
NextSeq ==
    \/ Idle /\ \E parentDSP \in ParentDSP : RoomOnLoad(parentDSP)
    \/ Idle /\ RefreshPipeline
    \/ \E p \in 1..MaxCalls : DownloadResolved(p)
    \/ \E p \in 1..MaxCalls : DownloadRejected(p)
    \/ \E p \in 1..MaxCalls, channels \in Configs : LinearizeResolved(p, channels)
    \/ \E p \in 1..MaxCalls : LinearizeRejected(p)
    \/ AnimationFrame

SpecSeq == Init /\ [][NextSeq]_vars

-----------------------------------------------------------------------------
(* Formatter harness: formatNodeContent applied to one stage descriptor    *)

Frequencies == {Undefined, Num(0), Num(100), Num(1000)}
Gains == {Undefined, Num(0), Num(3), Num(-6)}
FilterNames == {"Low Shelf", "PEQ 1"}

BiquadStages ==
    {BiquadStage(n, t, f, g) :
        n \in FilterNames, t \in {"Peaking", "Lowshelf"},
        f \in Frequencies, g \in Gains}

Stages ==
    BiquadStages
    \cup {GainStage(n, g) : n \in FilterNames, g \in Gains}
    \cup {FilterStage(n, t, hp, NoParameters) :
            n \in FilterNames, t \in {"Biquad", "Gain", "Conv", "Delay"},
            hp \in {FALSE}}
    \cup {MixerStage(n) : n \in 0..3}
    \cup {InputStage("hw:0", "S32LE"), OutputStage("hw:1", "S32LE"),
          FilterNoKeyStage, UnrecognizedStage, MissingTypeStage}

InitFormat ==
    /\ DSP = "undefined"
    /\ editorPresent = TRUE
    /\ editor = <<>>
    /\ lanes = <<>>
    /\ dom = <<>>
    /\ calls = <<>>
    /\ rafQueue = <<>>
    /\ last = Step("load", 0)
    /\ component \in Stages
    /\ content = harnessIdle

FormatStage ==
    /\ content.state = "idle"
    /\ LET r == formatNodeContent(component) IN
         content' = [state |-> "formatted", threw |-> r.threw, lines |-> r.lines]
    /\ UNCHANGED <<component, DSP, editorPresent, editor,
                   lanes, dom, calls, rafQueue, last>>

NextFormat == FormatStage

SpecFormat == InitFormat /\ [][NextFormat]_vars

-----------------------------------------------------------------------------
(* Properties *)

LaneCount == Cardinality({k \in 1..Len(editor) : editor[k].kind = "lane"})

OnlyErrorPanel == Len(editor) = 1 /\ editor[1].kind = "error"

Max(a, b) == IF a > b THEN a ELSE b

\* the nodes of a lane are those of its stages, in stage order
NodesOf(lane, stages, channelNo) ==
    /\ Len(lane.nodes) = Len(stages)
    /\ \A j \in 1..Len(stages) :
          /\ lane.nodes[j].dataType = stages[j].type
          /\ lane.nodes[j].header = ToUpperCase(stages[j].type)
          /\ lane.nodes[j].dataChannel = channelNo

\* C1: two refreshPipeline calls that overlap each other (and no other call),
\* both completed with N channels each, leave exactly N lanes in #editor and
\* exactly N entries in the lanes list.
C1_RapidRefreshLeavesOneLaneSet ==
    \A p, q \in 1..Len(calls) :
        ( /\ p < q
          /\ Idle
          /\ calls[p].kind = "refreshPipeline"
          /\ calls[q].kind = "refreshPipeline"
          /\ calls[p].peers = {q}
          /\ calls[q].peers = {p}
          /\ calls[p].outcome = "rendered"
          /\ calls[q].outcome = "rendered"
          /\ calls[p].n = calls[q].n
          /\ last.ev = "rendered"
          /\ last.call \in {p, q} )
        => /\ LaneCount = calls[q].n
           /\ Len(editor) = calls[q].n
           /\ Len(lanes) = calls[q].n

\* no pass so far was aborted by an exception thrown while building a lane
NoBuildFailure == \A q \in 1..Len(calls) : calls[q].outcome # "buildFailed"

\* C2: when roomOnLoad finds no live connection, whatever happened before, it
\* returns at once without fetching, #editor holds only the connectivity
\* error panel, and the lanes list is empty.  Stated for the behaviours in
\* which no earlier pass threw while building, so that a violation does not
\* rest on an aborted build.
C2_NotConnectedLeavesNoLanes ==
    (last.ev = "notConnected" /\ editorPresent /\ NoBuildFailure)
    => /\ calls[last.call].pc = "returned"
       /\ calls[last.call].n = -1
       /\ editor = <<ErrorPanel(NotConnectedMessage)>>
       /\ LaneCount = 0
       /\ lanes = <<>>

\* C3: after downloadConfig rejects, linearizeConfig rejects, or building a
\* lane throws, in roomOnLoad or in refreshPipeline, the lanes list is empty.
C3_FailureLeavesLanesEmpty ==
    last.ev \in {"downloadFailed", "linearizeFailed", "buildFailed"}
    => lanes = <<>>

\* C4: when a call ends on a fatal failure (no connection, download failure,
\* linearize failure), #editor holds the error panel and nothing else.
C4_FatalFailureShowsOnlyErrorPanel ==
    (editorPresent
        /\ last.ev \in {"notConnected", "downloadFailed", "linearizeFailed"})
    => OnlyErrorPanel

\* C5: a render that completes without having overlapped another call leaves
\* exactly one lane per channel of the configuration it linearized, in channel
\* order, lane i labelled "Channel i", both in #editor and in the lanes list,
\* each lane newly built by this pass from the stages of its channel.
C5_RenderProducesChannelLanes ==
    (last.ev = "rendered" /\ ~Overlapped(last.call))
    => LET channels == last.channels IN
       /\ Len(editor) = Len(channels)
       /\ Len(lanes) = Len(channels)
       /\ \A i \in 1..Len(channels) :
             /\ lanes[i] = <<last.call, i - 1>>
             /\ editor[i] = LaneChild(lanes[i])
             /\ lanes[i] \in DOMAIN dom
             /\ dom[lanes[i]].dataChannel = i - 1
             /\ dom[lanes[i]].label = "Channel " \o ToString(i - 1)
             /\ NodesOf(dom[lanes[i]], channels[i], i - 1)

\* a second or later call has just rendered a two-channel configuration
C5_Witness ==
    /\ last.ev = "rendered"
    /\ ~Overlapped(last.call)
    /\ last.call > 1
    /\ \E q \in 1..(last.call - 1) : calls[q].outcome = "rendered" /\ calls[q].n > 0
    /\ Len(last.channels) = 2
    /\ Len(lanes) = 2

\* C6: a lane built from K stages holds K nodes in stage order; once its
\* deferred drawWires has run, and also if drawWires runs again, its container
\* holds exactly max(K - 1, 0) wires, the k-th joining node k and node k + 1 of
\* that same lane.
C6_LaneNodesAndWires ==
    /\ last.ev = "rendered" =>
          \A i \in 1..Len(last.channels) :
             LET el == <<last.call, i - 1>> IN
             el \in DOMAIN dom /\ NodesOf(dom[el], last.channels[i], i - 1)
    /\ \A el \in DOMAIN dom :
          LET lane == dom[el]
              K == Len(lane.nodes)
              again == drawWires(lane, Attached(el))
              Adjacent(wires) ==
                  /\ Len(wires) = Max(K - 1, 0)
                  /\ \A k \in 1..Len(wires) :
                        /\ wires[k].className = "wire"
                        /\ wires[k].from = <<el, k>>
                        /\ wires[k].to = <<el, k + 1>>
          IN  /\ lane.wired = "pending" => lane.wires = <<>>
              /\ lane.wired # "pending" => Adjacent(lane.wires) /\ Adjacent(again)

\* lanes of 0, of 1 and of MaxStages nodes have had their wires drawn
C6_Witness ==
    /\ \E el \in DOMAIN dom :
          /\ dom[el].wired # "pending"
          /\ Len(dom[el].nodes) = MaxStages
          /\ Len(dom[el].wires) = MaxStages - 1
    /\ \E el \in DOMAIN dom :
          dom[el].wired # "pending" /\ Len(dom[el].nodes) = 1

\* C7: building never throws on a stage descriptor: every pass whose
\* linearizeConfig resolved completes with one lane per channel and one node
\* per stage.
C7_MalformedStageNeverFatal ==
    last.ev \in {"rendered", "buildFailed"}
    => /\ last.ev = "rendered"
       /\ \A i \in 1..Len(last.channels) :
             LET el == <<last.call, i - 1>> IN
             /\ el \in DOMAIN dom
             /\ Len(dom[el].nodes) = Len(last.channels[i])

\* C8: a Biquad filter named n with parameters p formats to the lines n,
\* p.type, then "{p.freq} Hz" iff freq is present, then "{p.gain} dB" iff gain
\* is present; a present 0 is shown.
C8_BiquadDetailLines ==
    ( /\ content.state = "formatted"
      /\ component.hasType
      /\ component.type = "filter"
      /\ Len(component.keys) = 2
      /\ component.filter.type = "Biquad"
      /\ component.filter.hasParameters )
    => LET p == component.filter.parameters
           expected ==
               <<component.keys[2], p.type>>
               \o (IF p.freq.def THEN <<ToString(p.freq.v) \o " Hz">> ELSE <<>>)
               \o (IF p.gain.def THEN <<ToString(p.gain.v) \o " dB">> ELSE <<>>)
       IN  /\ ~content.threw
           /\ [k \in 1..Len(content.lines) |-> content.lines[k].text] = expected

\* C9: in every lane the node at position i (0-based) has x-offset
\* 10 + 140 * i, whatever its type and the lane's channel.
C9_NodeOffsets ==
    \A el \in DOMAIN dom :
        \A j \in 1..Len(dom[el].nodes) :
            dom[el].nodes[j].left = 10 + 140 * (j - 1)

\* a lane of MaxStages nodes and a lane of another channel exist
C9_Witness ==
    /\ \E el \in DOMAIN dom :
          Len(dom[el].nodes) = MaxStages /\ dom[el].nodes[MaxStages].left > 10
    /\ \E el \in DOMAIN dom :
          dom[el].dataChannel = 1 /\ Len(dom[el].nodes) > 0

\* C10: whenever a deferred drawWires callback runs, its lane is a child of
\* #editor.  Stated for the behaviours in which no pass threw while building,
\* so that a violation does not rest on an aborted build.
C10_WiresRoutedOnPlacedLanes ==
    (last.ev = "frame" /\ NoBuildFailure) => last.unplaced = {}

====
